---- MODULE Spec2Model ----
(***************************************************************************)
(* A model of the grading-and-integrity pipeline: grader.grade,            *)
(* analyze_eval_run.grade_quietly, check_test_manipulation,               *)
(* get_all_output_items and the item loop of analyze_eval_run.             *)
(*                                                                         *)
(* Strings are modelled as sequences of tokens.  A model output text is a  *)
(* sequence over TextTokens, a child's stdout a sequence over OutTokens,   *)
(* a problem text or a submitted program a sequence over HarnessTokens.    *)
(* Scores are exact rationals <<numerator, denominator>>.                  *)
(***************************************************************************)
EXTENDS Integers, Sequences, FiniteSets, TLC

VARIABLES
    \* ---- grade / grade_quietly ----
    fn,             \* which function is running: "grade" or "grade_quietly"
    sample,         \* grade's argument: [output_json, output_text]
    code,           \* the code string handed to the child (its kind)
    pc,             \* position in the running function
    child,          \* the child process: "none", "alive", "exited", "killed"
    spawned,        \* number of child processes started by this call
    stdout,         \* what the child wrote to standard output
    stderr,         \* TRUE iff the child wrote anything to standard error
    returncode,     \* the child's exit status
    outcome,        \* "Completed", "Faulted", "TimedOut", "LaunchError" or "-"
    score,          \* the returned score, <<num, den>>
    msg,            \* grade_quietly's second result
    span,           \* json_match.group(), <<>> while there is no match
    live,           \* the calls whose child process is running
    \* ---- check_test_manipulation ----
    submitted_code, \* argument `code`
    user_content,   \* argument `user_content`
    hpc,            \* position in check_test_manipulation
    tampered,       \* first element of the returned pair
    reason,         \* second element of the returned pair
    \* ---- get_all_output_items ----
    remote,         \* the service's item sequence (item ids)
    all_items,      \* the list being collected
    after,          \* the cursor
    ppc,            \* position in get_all_output_items
    requests,       \* number of page requests issued
    last_page,      \* the last response: [data, has_more]
    \* ---- analyze_eval_run ----
    apc,            \* position in analyze_eval_run
    exc,            \* the exception that left analyze_eval_run, or "-"
    eval_items,     \* items, the list get_all_output_items returned
    idx,            \* number of items the loop has finished
    matches, mismatches, manipulations, no_output, failures,
    sample_data,    \* the item's sample: [output, output_text]
    output_text,    \* the model output text of the item
    remote_score,   \* the item's remote score, NoScore for None
    local_score, local_msg, manipulated, manip_reason,
    cls,            \* how the item was counted
    printed,        \* the diagnostic lines printed for the item
    summary,        \* the printed summary
    \* ---- the program of grader.py's local test cases ----
    impl,           \* the remainder r of `return x % 2 == r`
    cases,          \* the scaffold's list of (input, gold) pairs
    ci              \* number of cases the scaffold has run

gvars == <<fn, sample, code, pc, child, spawned, stdout, stderr, returncode,
           outcome, score, msg, span, live>>
hvars == <<submitted_code, user_content, hpc, tampered, reason>>
pvars == <<remote, all_items, after, ppc, requests, last_page>>
avars == <<apc, exc, eval_items, idx, matches, mismatches, manipulations,
           no_output, failures, sample_data, output_text, remote_score,
           local_score, local_msg, manipulated, manip_reason, cls, printed,
           summary>>
svars == <<impl, cases, ci>>
vars == <<gvars, hvars, pvars, avars, svars>>

----------------------------------------------------------------------------
(* Bounds *)

MaxText == 5        \* longest model output text, in tokens
MaxOut == 3         \* longest child stdout, in tokens
MaxHarness == 3     \* longest problem text / submitted program, in tokens
MaxItems == 3       \* most items the remote run holds
MaxRequests == 5    \* most page requests followed

SeqsUpTo(S, n) == UNION {[1..k -> S] : k \in 0..n}

----------------------------------------------------------------------------
(* Strings of the grader *)

\* Tokens of a model output text:
\*   "{" "}" ":"  the JSON punctuation
\*   "A"          the quoted literal "answer"
\*   "S"          a JSON string literal with non-blank content
\*   "B"          a JSON string literal that is empty or all whitespace
\*   "N"          a JSON scalar that is not a string (number, true, null)
\*   "x"          prose that is none of the above
TextTokens == {"{", "}", ":", "A", "S", "B", "N", "x"}

\* Tokens of a child's stdout: "P" is TEST_PASS, "F" is TEST_FAIL, "o" other
\* text, "w" whitespace.
OutTokens == {"P", "F", "o", "w"}

Texts == SeqsUpTo(TextTokens, MaxText)
Stdouts == SeqsUpTo(OutTokens, MaxOut)

\* JSON values as the grader looks at them: t is the Python type, k the single
\* key of a dict ("answer", "other", or "none" for {}), v the kind of the value
\* under that key ("str" non-blank string, "blank", "nonstr").
JVal(t, k, v) == [t |-> t, k |-> k, v |-> v]
Absent == JVal("absent", "-", "-")
DecodeError == JVal("invalid", "-", "-")

\* The truthy values sample['output_json'] is given.
OutputJsons ==
    {JVal("dict", "answer", v) : v \in {"str", "blank", "nonstr"}}
        \cup {JVal("dict", "other", "str"), JVal("list", "-", "-")}

NoCode == "-"
NoScore == <<0, 0>>
Zero == <<0, 1>>

----------------------------------------------------------------------------
(* grader.grade, lines 32-59: from the sample to the code string *)

MaxJsonText == 1    \* longest output_text beside a given output_json

Samples ==
    {[output_json |-> Absent, output_text |-> t] : t \in Texts}
        \cup {[output_json |-> j, output_text |-> t] :
                j \in OutputJsons, t \in SeqsUpTo(TextTokens, MaxJsonText)}
NoSample == [output_json |-> Absent, output_text |-> <<>>]

SetMin(S) == CHOOSE i \in S : \A j \in S : i <= j
SetMax(S) == CHOOSE i \in S : \A j \in S : j <= i

\* re.search(r'\{.*"answer".*\}', text, re.DOTALL).group(), or <<>> for None:
\* the leftmost "{" from which the pattern can match, then greedily to the
\* last "}" that still has an "answer" literal between the two.
MatchStarts(t) ==
    {i \in 1..Len(t) :
        /\ t[i] = "{"
        /\ \E j \in (i+1)..Len(t) : \E k \in (j+1)..Len(t) :
              t[j] = "A" /\ t[k] = "}"}
MatchEnds(t, i) ==
    {k \in (i+2)..Len(t) :
        t[k] = "}" /\ \E j \in (i+1)..(k-1) : t[j] = "A"}
re_search_answer(t) ==
    IF MatchStarts(t) = {} THEN <<>>
    ELSE LET i == SetMin(MatchStarts(t))
         IN  SubSeq(t, i, SetMax(MatchEnds(t, i)))

\* The JSON values of the token language: a scalar, {} or { key : value }.
RECURSIVE IsJson(_)
IsJson(s) ==
    \/ Len(s) = 1 /\ s[1] \in {"A", "S", "B", "N"}
    \/ Len(s) = 2 /\ s[1] = "{" /\ s[2] = "}"
    \/ /\ Len(s) >= 5
       /\ s[1] = "{" /\ s[Len(s)] = "}"
       /\ s[2] \in {"A", "S", "B"} /\ s[3] = ":"
       /\ IsJson(SubSeq(s, 4, Len(s) - 1))

\* The kind of a JSON value as an answer.
ValueKind(s) ==
    IF Len(s) = 1 /\ s[1] \in {"A", "S"} THEN "str"
    ELSE IF Len(s) = 1 /\ s[1] = "B" THEN "blank"
    ELSE "nonstr"

\* json.loads(span); DecodeError stands for json.JSONDecodeError.
json_loads(s) ==
    IF ~IsJson(s) THEN DecodeError
    ELSE IF Len(s) = 1 THEN JVal(ValueKind(s), "-", "-")
    ELSE IF Len(s) = 2 THEN JVal("dict", "none", "-")
    ELSE JVal("dict", IF s[2] = "A" THEN "answer" ELSE "other",
              ValueKind(SubSeq(s, 4, Len(s) - 1)))

\* Lines 34-51: the response, or ok = FALSE where grade returns 0.0.
NoResponse == [ok |-> FALSE, r |-> Absent]
grade_response(s) ==
    IF s.output_json.t # "absent" THEN [ok |-> TRUE, r |-> s.output_json]
    ELSE IF s.output_text = <<>> THEN NoResponse
    ELSE LET m == re_search_answer(s.output_text)
         IN  IF m = <<>> THEN NoResponse
             ELSE IF json_loads(m).t = "invalid" THEN NoResponse
             ELSE [ok |-> TRUE, r |-> json_loads(m)]

\* grade_code without the `not code.strip()` test of line 58.
MutRunsBlankCode(s) ==
    LET rr == grade_response(s)
    IN  IF ~rr.ok THEN NoCode
        ELSE IF rr.r.t # "dict" \/ rr.r.k # "answer" THEN NoCode
        ELSE IF rr.r.v = "nonstr" THEN NoCode
        ELSE rr.r.v

\* Lines 54-59: the code to run, or NoCode where grade returns 0.0.
grade_code(s) ==
    LET rr == grade_response(s)
    IN  IF ~rr.ok THEN NoCode
        ELSE IF rr.r.t # "dict" \/ rr.r.k # "answer" THEN NoCode
        ELSE IF rr.r.v # "str" THEN NoCode
        ELSE "str"

\* Line 44: json_match.group() where grade reaches the search, else <<>>.
grade_span(s) ==
    IF s.output_json.t # "absent" \/ s.output_text = <<>> THEN <<>>
    ELSE re_search_answer(s.output_text)

----------------------------------------------------------------------------
(* analyze_eval_run, lines 181-187: from the output text to the code *)

Answer(r, k) == [raised |-> r, kind |-> k]

\* analyze_answer that takes the value of whatever key the object has.
MutAnswerAnyKey(t) ==
    LET m == re_search_answer(t)
        response == json_loads(m)
    IN  IF m = <<>> THEN Answer(FALSE, "none")
        ELSE IF response.t # "dict" THEN Answer(TRUE, "none")
        ELSE IF response.k = "none" THEN Answer(FALSE, "none")
        ELSE Answer(FALSE, response.v)

\* response.get('answer', '') of the searched and parsed text: its kind
\* ("none" when there is no match or no such key), or raised = TRUE where
\* json.loads raises or the parsed value has no get.
analyze_answer(t) ==
    LET m == re_search_answer(t)
        response == json_loads(m)
    IN  IF m = <<>> THEN Answer(FALSE, "none")
        ELSE IF response.t # "dict" THEN Answer(TRUE, "none")
        ELSE IF response.k # "answer" THEN Answer(FALSE, "none")
        ELSE Answer(FALSE, response.v)

\* `if code:`: a non-blank string is truthy; a "blank" string is falsy when
\* empty and truthy when it holds whitespace; a non-string may be either
\* (0, null, false, {} are falsy; 5, true, {"a": 1} are truthy).
Truthiness(kind) ==
    IF kind = "str" THEN {TRUE}
    ELSE IF kind = "none" THEN {FALSE}
    ELSE {TRUE, FALSE}

----------------------------------------------------------------------------
(* Scoring: grader.grade lines 71-97, grade_quietly lines 31-48 *)

RECURSIVE lstrip(_)
lstrip(s) == IF s # <<>> /\ Head(s) = "w" THEN lstrip(Tail(s)) ELSE s
RECURSIVE rstrip(_)
rstrip(s) ==
    IF s # <<>> /\ s[Len(s)] = "w" THEN rstrip(SubSeq(s, 1, Len(s) - 1)) ELSE s
strip(s) == rstrip(lstrip(s))

\* str.count(marker)
count(s, tok) == Cardinality({i \in 1..Len(s) : s[i] = tok})

Msg(text, p, f) == [text |-> text, p |-> p, f |-> f]
NoMsg == Msg("-", 0, 0)

\* grade_score without the stderr test of line 71.
MutIgnoresStderr(out, err) ==
    LET output == strip(out)
        test_pass_count == count(output, "P")
        test_fail_count == count(output, "F")
        total_tests == test_pass_count + test_fail_count
    IN  IF total_tests = 0 THEN Zero
        ELSE IF test_fail_count > 0
             THEN <<test_pass_count, 2 * total_tests>>
             ELSE <<test_pass_count, total_tests>>

\* grade_score with the halving of line 95 applied to every run.
MutAlwaysHalves(out, err) ==
    IF err THEN Zero
    ELSE LET output == strip(out)
             test_pass_count == count(output, "P")
             test_fail_count == count(output, "F")
             total_tests == test_pass_count + test_fail_count
         IN  IF total_tests = 0 THEN Zero
             ELSE <<test_pass_count, 2 * total_tests>>

\* grade_score counting a failed test as half a passed one.
MutFailIsHalfPass(out, err) ==
    IF err THEN Zero
    ELSE LET output == strip(out)
             test_pass_count == count(output, "P")
             test_fail_count == count(output, "F")
             total_tests == test_pass_count + test_fail_count
         IN  IF total_tests = 0 THEN Zero
             ELSE <<2 * test_pass_count + test_fail_count, 2 * total_tests>>

grade_score(out, err) ==
    IF err THEN Zero
    ELSE LET output == strip(out)
             test_pass_count == count(output, "P")
             test_fail_count == count(output, "F")
             total_tests == test_pass_count + test_fail_count
         IN  IF total_tests = 0 THEN Zero
             ELSE IF test_fail_count > 0
                  THEN <<test_pass_count, 2 * total_tests>>
                  ELSE <<test_pass_count, total_tests>>

\* grade_quietly_result without the penalty of lines 45-46.
MutNoPenalty(out, err) ==
    IF err THEN [score |-> Zero, msg |-> Msg("Execution error", 0, 0)]
    ELSE LET output == strip(out)
             test_pass_count == count(output, "P")
             test_fail_count == count(output, "F")
             total_tests == test_pass_count + test_fail_count
         IN  IF total_tests = 0
             THEN [score |-> Zero, msg |-> Msg("No tests run", 0, 0)]
             ELSE [score |-> <<test_pass_count, total_tests>>,
                   msg |-> Msg("PASS_FAIL", test_pass_count, test_fail_count)]

\* grade_quietly_result treating a run without markers as a clean pass.
MutNoTestsPass(out, err) ==
    IF err THEN [score |-> Zero, msg |-> Msg("Execution error", 0, 0)]
    ELSE LET output == strip(out)
             test_pass_count == count(output, "P")
             test_fail_count == count(output, "F")
             total_tests == test_pass_count + test_fail_count
         IN  IF test_fail_count = 0
             THEN [score |-> <<1, 1>>,
                   msg |-> Msg("PASS_FAIL", test_pass_count, test_fail_count)]
             ELSE [score |-> <<test_pass_count, 2 * total_tests>>,
                   msg |-> Msg("PASS_FAIL", test_pass_count, test_fail_count)]

\* grade_quietly_result testing stderr only once stdout shows no marker.
MutStderrAfterCount(out, err) ==
    LET output == strip(out)
        test_pass_count == count(output, "P")
        test_fail_count == count(output, "F")
        total_tests == test_pass_count + test_fail_count
    IN  IF total_tests = 0
        THEN IF err
             THEN [score |-> Zero, msg |-> Msg("Execution error", 0, 0)]
             ELSE [score |-> Zero, msg |-> Msg("No tests run", 0, 0)]
        ELSE [score |-> IF test_fail_count > 0
                        THEN <<test_pass_count, 2 * total_tests>>
                        ELSE <<test_pass_count, total_tests>>,
              msg |-> Msg("PASS_FAIL", test_pass_count, test_fail_count)]

grade_quietly_result(out, err) ==
    IF err THEN [score |-> Zero, msg |-> Msg("Execution error", 0, 0)]
    ELSE LET output == strip(out)
             test_pass_count == count(output, "P")
             test_fail_count == count(output, "F")
             total_tests == test_pass_count + test_fail_count
         IN  IF total_tests = 0
             THEN [score |-> Zero, msg |-> Msg("No tests run", 0, 0)]
             ELSE [score |-> IF test_fail_count > 0
                             THEN <<test_pass_count, 2 * total_tests>>
                             ELSE <<test_pass_count, total_tests>>,
                   msg |-> Msg("PASS_FAIL", test_pass_count, test_fail_count)]

----------------------------------------------------------------------------
(* Idle values: the parts of the state a specification leaves alone *)

GIdle ==
    /\ fn = "-" /\ sample = NoSample /\ code = NoCode /\ pc = "idle"
    /\ child = "none" /\ spawned = 0 /\ stdout = <<>> /\ stderr = FALSE
    /\ returncode = 0 /\ outcome = "-" /\ score = NoScore /\ msg = NoMsg
    /\ span = <<>> /\ live = {}
HIdle ==
    /\ submitted_code = <<>> /\ user_content = <<>> /\ hpc = "idle"
    /\ tampered = FALSE /\ reason = "-"
PIdle ==
    /\ remote = <<>> /\ all_items = <<>> /\ after = 0 /\ ppc = "idle"
    /\ requests = 0 /\ last_page = [data |-> <<>>, has_more |-> FALSE]
NoSampleData ==
    [output |-> [shape |-> "absent", content |-> <<>>], output_text |-> <<>>]
NoSummary ==
    [total |-> 0, perfect |-> 0, failures |-> 0, matches |-> 0,
     mismatches |-> 0, no_output |-> 0, manipulations |-> 0]
ACleared ==
    /\ exc = "-" /\ eval_items = <<>> /\ idx = 0
    /\ matches = 0 /\ mismatches = 0 /\ manipulations = 0
    /\ no_output = 0 /\ failures = 0
    /\ sample_data = NoSampleData /\ output_text = <<>>
    /\ remote_score = NoScore /\ local_score = NoScore /\ local_msg = NoMsg
    /\ manipulated = FALSE /\ manip_reason = "-"
    /\ cls = "-" /\ printed = {} /\ summary = NoSummary
AIdle ==
    /\ apc = "idle" /\ ACleared
SIdle ==
    /\ impl = 0 /\ cases = <<>> /\ ci = 0

----------------------------------------------------------------------------
(* grade, grade_quietly and the try block of analyze_eval_run as processes *)

\* The children running once call c has started one.
Started(l, c) == l \cup {c}

\* subprocess.run that raises TimeoutExpired without killing the child.
MutNotReaped(l, c) == l

\* The children running once the child of call c has exited or has been
\* killed and waited for by subprocess.run.
Reaped(l, c) == l \ {c}

\* The code strings analyze_eval_run hands to grade_quietly (any truthy
\* answer): a non-blank string, an all-whitespace string, a non-string.
QuietCodes == {"str", "blank", "nonstr"}

\* The samples analyze_eval_run's try block is entered with: a non-empty
\* output text.
TextSamples ==
    {[output_json |-> Absent, output_text |-> t] : t \in Texts \ {<<>>}}

GInit ==
    /\ \/ fn = "grade" /\ sample \in Samples /\ code = NoCode /\ pc = "start"
       \/ fn = "grade_quietly" /\ sample = NoSample /\ code \in QuietCodes
            /\ pc = "exec"
       \/ fn = "analyze" /\ sample \in TextSamples /\ code = NoCode
            /\ pc = "start"
    /\ child = "none" /\ spawned = 0 /\ stdout = <<>> /\ stderr = FALSE
    /\ returncode = 0 /\ outcome = "-" /\ score = NoScore /\ msg = NoMsg
    /\ span = <<>> /\ live = {}

\* What a return statement does.
Return(s, m, o) ==
    /\ pc' = "done" /\ score' = s /\ msg' = m /\ outcome' = o

\* grade, lines 32-59: return 0.0 without running anything, or go on to
\* subprocess.run with the extracted code.
GradeExtract ==
    /\ pc = "start" /\ fn = "grade"
    /\ IF grade_code(sample) = NoCode
       THEN /\ Return(Zero, NoMsg, "-")
            /\ UNCHANGED code
       ELSE /\ code' = grade_code(sample)
            /\ pc' = "exec"
            /\ UNCHANGED <<score, msg, outcome>>
    /\ span' = grade_span(sample)
    /\ UNCHANGED <<fn, sample, child, spawned, stdout, stderr, returncode,
                   live>>
    /\ UNCHANGED <<hvars, pvars, avars, svars>>

\* analyze_eval_run, lines 181-188 up to the call of grade_quietly: leave the
\* try block with "No code found" or "Parse error", or call grade_quietly
\* with the answer.
AnalyzeExtract ==
    /\ pc = "start" /\ fn = "analyze"
    /\ LET a == analyze_answer(sample.output_text)
       IN  IF a.raised
           THEN /\ Return(Zero, Msg("Parse error", 0, 0), "-")
                /\ UNCHANGED code
           ELSE \E truthy \in Truthiness(a.kind) :
                   IF truthy
                   THEN /\ code' = a.kind
                        /\ pc' = "exec"
                        /\ UNCHANGED <<score, msg, outcome>>
                   ELSE /\ Return(Zero, Msg("No code found", 0, 0), "-")
                        /\ UNCHANGED code
    /\ span' = re_search_answer(sample.output_text)
    /\ UNCHANGED <<fn, sample, child, spawned, stdout, stderr, returncode,
                   live>>
    /\ UNCHANGED <<hvars, pvars, avars, svars>>

\* subprocess.run starts the child (grade line 63, grade_quietly line 23).
\* Its argument list must hold strings.
Launch ==
    /\ pc = "exec" /\ code # "nonstr"
    /\ child' = "alive" /\ spawned' = spawned + 1 /\ pc' = "running"
    /\ live' = Started(live, idx)
    /\ UNCHANGED <<fn, sample, code, stdout, stderr, returncode, outcome,
                   score, msg, span>>
    /\ UNCHANGED <<hvars, pvars, avars, svars>>

\* subprocess.run raises before any child runs: the interpreter cannot be
\* started, or an argument is not a string.  grade line 78, grade_quietly
\* line 52.
LaunchFails ==
    /\ pc = "exec"
    /\ Return(Zero, IF fn = "grade" THEN NoMsg ELSE Msg("Error", 0, 0),
              "LaunchError")
    /\ UNCHANGED <<fn, sample, code, child, spawned, stdout, stderr,
                   returncode, span, live>>
    /\ UNCHANGED <<hvars, pvars, avars, svars>>

\* What the child can have written to stdout when it exits: a program that is
\* all whitespace prints nothing.
ChildStdouts(c) == IF c = "blank" THEN {<<>>} ELSE Stdouts

\* RunReturns that treats a non-zero exit status as it treats stderr output.
MutRunReturnsChecksExit ==
    /\ pc = "running"
    /\ \E out \in ChildStdouts(code), err \in BOOLEAN, rc \in {0, 1} :
          /\ stdout' = out /\ stderr' = err /\ returncode' = rc
          /\ child' = "exited"
          /\ IF fn = "grade"
             THEN Return(grade_score(out, err \/ rc # 0), NoMsg,
                         IF err THEN "Faulted" ELSE "Completed")
             ELSE Return(grade_quietly_result(out, err \/ rc # 0).score,
                         grade_quietly_result(out, err \/ rc # 0).msg,
                         IF err THEN "Faulted" ELSE "Completed")
    /\ live' = Reaped(live, idx)
    /\ UNCHANGED <<fn, sample, code, spawned, span>>
    /\ UNCHANGED <<hvars, pvars, avars, svars>>

\* The child exits within the timeout and the function scores its output
\* (grade lines 71-97, grade_quietly lines 31-48).
RunReturns ==
    /\ pc = "running"
    /\ \E out \in ChildStdouts(code), err \in BOOLEAN, rc \in {0, 1} :
          /\ stdout' = out /\ stderr' = err /\ returncode' = rc
          /\ child' = "exited"
          /\ IF fn = "grade"
             THEN Return(grade_score(out, err), NoMsg,
                         IF err THEN "Faulted" ELSE "Completed")
             ELSE Return(grade_quietly_result(out, err).score,
                         grade_quietly_result(out, err).msg,
                         IF err THEN "Faulted" ELSE "Completed")
    /\ live' = Reaped(live, idx)
    /\ UNCHANGED <<fn, sample, code, spawned, span>>
    /\ UNCHANGED <<hvars, pvars, avars, svars>>

\* The 10 seconds pass: subprocess.run kills the child, reaps it and raises
\* TimeoutExpired (grade line 76, grade_quietly line 50).
RunTimesOut ==
    /\ pc = "running"
    /\ child' = "killed"
    /\ Return(Zero, IF fn = "grade" THEN NoMsg ELSE Msg("Timeout", 0, 0),
              "TimedOut")
    /\ live' = Reaped(live, idx)
    /\ UNCHANGED <<fn, sample, code, spawned, stdout, stderr, returncode,
                   span>>
    /\ UNCHANGED <<hvars, pvars, avars, svars>>

InitGrade == GInit /\ HIdle /\ PIdle /\ AIdle /\ SIdle
NextGrade ==
    \/ GradeExtract \/ AnalyzeExtract
    \/ Launch \/ LaunchFails \/ RunReturns \/ RunTimesOut
SpecGrade == InitGrade /\ [][NextGrade]_vars

----------------------------------------------------------------------------
(* check_test_manipulation *)

\* Tokens of a problem text or a submitted program: "M" is the marker
\* '# Test cases', "nl" a newline, "a" other text, "sp" a blank.
HarnessTokens == {"M", "nl", "a", "sp"}
HarnessTexts == SeqsUpTo(HarnessTokens, MaxHarness)

\* re.search(r'# Test cases.*?$', text, re.DOTALL | re.MULTILINE).group(), or
\* <<>> for None: from the leftmost marker, lazily, to the first place where
\* $ matches, which under MULTILINE is the end of the text or the place
\* before a newline.
DollarMatches(t, p) == p = Len(t) \/ t[p + 1] = "nl"
re_search_test_cases(t) ==
    IF \A i \in 1..Len(t) : t[i] # "M" THEN <<>>
    ELSE LET i == SetMin({n \in 1..Len(t) : t[n] = "M"})
             p == SetMin({n \in i..Len(t) : DollarMatches(t, n)})
         IN  SubSeq(t, i, p)

Verdict(t, r) == [tampered |-> t, reason |-> r]

MutCompareWholeCode(c, u) ==
    LET original == re_search_test_cases(u)
    IN  IF original = <<>> THEN Verdict(FALSE, "None")
        ELSE IF re_search_test_cases(c) = <<>>
             THEN Verdict(TRUE, "Test harness missing")
             ELSE IF original # c THEN Verdict(TRUE, "diff")
             ELSE Verdict(FALSE, "None")

MutMissingIsClean(c, u) ==
    LET original == re_search_test_cases(u)
        submitted == re_search_test_cases(c)
    IN  IF original = <<>> THEN Verdict(FALSE, "None")
        ELSE IF submitted = <<>> THEN Verdict(FALSE, "None")
        ELSE IF original # submitted THEN Verdict(TRUE, "diff")
        ELSE Verdict(FALSE, "None")

\* Lines 59-83.  "diff" stands for the joined first ten lines of the unified
\* diff of two different fragments, "None" for None.
check_test_manipulation(c, u) ==
    LET original == re_search_test_cases(u)
        submitted == re_search_test_cases(c)
    IN  IF original = <<>> THEN Verdict(FALSE, "None")
        ELSE IF submitted = <<>> THEN Verdict(TRUE, "Test harness missing")
        ELSE IF original # submitted THEN Verdict(TRUE, "diff")
        ELSE Verdict(FALSE, "None")

HInit ==
    /\ submitted_code \in HarnessTexts /\ user_content \in HarnessTexts
    /\ hpc = "start" /\ tampered = FALSE /\ reason = "-"

CheckTestManipulation ==
    /\ hpc = "start"
    /\ tampered' = check_test_manipulation(submitted_code, user_content).tampered
    /\ reason' = check_test_manipulation(submitted_code, user_content).reason
    /\ hpc' = "done"
    /\ UNCHANGED <<submitted_code, user_content>>
    /\ UNCHANGED <<gvars, pvars, avars, svars>>

InitHarness == GIdle /\ HInit /\ PIdle /\ AIdle /\ SIdle
NextHarness == CheckTestManipulation
SpecHarness == InitHarness /\ [][NextHarness]_vars

----------------------------------------------------------------------------
(* get_all_output_items *)

Limit == 100

\* Item ids are the numbers 1..MaxItems (the service's ids are non-empty
\* strings, which are truthy, as these numbers are); 0 stands for None.
ItemIds == 1..MaxItems
Truthy(x) == x # 0

Injective(s) == \A i, j \in 1..Len(s) : s[i] = s[j] => i = j
Remotes == {s \in SeqsUpTo(ItemIds, MaxItems) : Injective(s)}

\* The service: the items that follow the item whose id is the cursor, all of
\* them when the request carries no cursor.
ItemsAfter(items, cursor) ==
    IF cursor = 0 THEN items
    ELSE LET i == CHOOSE n \in 1..Len(items) : items[n] = cursor
         IN  SubSeq(items, i + 1, Len(items))

\* The params of the request, lines 92-94: the cursor is sent only if truthy.
ParamsAfter(a) == IF Truthy(a) THEN a ELSE 0

MutCursorFirstItem(items, cur) == IF items # <<>> THEN items[1] ELSE cur

\* Lines 107-108.
NextCursor(items, cur) == IF items # <<>> THEN items[Len(items)] ELSE cur

PInit ==
    /\ remote \in Remotes /\ all_items = <<>> /\ after = 0 /\ ppc = "loop"
    /\ requests = 0 /\ last_page = [data |-> <<>>, has_more |-> FALSE]

\* One turn of the loop, lines 92-108, with a 2xx response: the service
\* answers with a page of at most `limit` items and has_more telling whether
\* items remain after it.
FetchPage ==
    /\ ppc = "loop" /\ requests < MaxRequests
    /\ LET rest == ItemsAfter(remote, ParamsAfter(after))
           most == IF Len(rest) < Limit THEN Len(rest) ELSE Limit
       IN  \E k \in 0..most :
              LET items == SubSeq(rest, 1, k)
                  has_more == k < Len(rest)
              IN  /\ last_page' = [data |-> items, has_more |-> has_more]
                  /\ all_items' = all_items \o items
                  /\ IF ~has_more
                     THEN ppc' = "done" /\ after' = after
                     ELSE ppc' = "loop" /\ after' = NextCursor(items, after)
    /\ requests' = requests + 1
    /\ UNCHANGED remote
    /\ UNCHANGED <<gvars, hvars, avars, svars>>

\* One turn of the loop with a non-2xx response: raise_for_status raises,
\* line 98, and nothing in get_all_output_items catches it.
FetchFails ==
    /\ ppc = "loop" /\ requests < MaxRequests
    /\ ppc' = "raised"
    /\ requests' = requests + 1
    /\ UNCHANGED <<remote, all_items, after, last_page>>
    /\ UNCHANGED <<gvars, hvars, avars, svars>>

InitPaging == GIdle /\ HIdle /\ PInit /\ AIdle /\ SIdle
NextPaging == FetchPage \/ FetchFails
SpecPaging == InitPaging /\ [][NextPaging]_vars

----------------------------------------------------------------------------
(* analyze_eval_run from line 132: fetch the items, then the item loop *)

MaxAuditItems == 2  \* most items of an audited run

\* The runs audited: items 1..n in the service's order.
AuditRemotes == {[i \in 1..n |-> i] : n \in 0..MaxAuditItems}

\* The output texts of the items: prose without a match, a span that is not
\* JSON, an object without the key, and an answer of each kind.
AuditTexts ==
    { <<"x">>, <<"{", "A", "}">>, <<"{", "S", ":", "A", "}">>,
      <<"{", "A", ":", "S", "}">>, <<"{", "A", ":", "B", "}">>,
      <<"{", "A", ":", "N", "}">> }

\* sample['output']: the key is absent, or the list is empty, or its first
\* entry has the content given (<<>> when it has none or an empty one).
Output(shape, content) == [shape |-> shape, content |-> content]
Outputs ==
    {Output("absent", <<>>), Output("empty", <<>>)}
        \cup {Output("list", t) : t \in AuditTexts \cup {<<>>}}
SampleDatas ==
    {[output |-> o, output_text |-> t] :
        o \in Outputs, t \in AuditTexts \cup {<<>>}}

\* select_output_text that prefers the flat field.
MutFlatWins(sd) ==
    IF sd.output_text # <<>> THEN sd.output_text
    ELSE IF sd.output.shape = "list" THEN sd.output.content ELSE <<>>

\* Lines 157-164: output_text, <<>> for None and for ''.
select_output_text(sd) ==
    LET first == IF sd.output.shape = "list" THEN sd.output.content ELSE <<>>
    IN  IF first = <<>> THEN sd.output_text ELSE first

\* results[0].get('score', 0.0), NoScore for None (no results).
RemoteScores == {NoScore, Zero, <<1, 200>>, <<1, 4>>, <<1, 1>>}

\* A code that is a truthy value other than a string, such as 5.
NotAString == <<"~">>

\* The strings a code kind stands for, as check_test_manipulation sees them.
CodeTextsOf(kind) ==
    IF kind = "str" THEN {<<"a">>, <<"M">>, <<"M", "a">>, <<"M", "nl", "a">>}
    ELSE IF kind = "blank" THEN {<<"sp">>}
    ELSE {NotAString}

\* input_messages[1].get('content', ''), '' with fewer than two messages:
\* a string, as the data source's item schema requires of a content.
AuditUsers == {<<>>, <<"a">>, <<"M">>, <<"M", "a">>}

\* check_test_manipulation that also raises while it builds the diff of two
\* different fragments.
MutRaisesOnDifference(c, u) ==
    \/ re_search_test_cases(u) # <<>> /\ c = NotAString
    \/ /\ re_search_test_cases(u) # <<>>
       /\ re_search_test_cases(c) # <<>>
       /\ re_search_test_cases(c) # re_search_test_cases(u)

\* check_test_manipulation raises TypeError where re.search is given a
\* subject that is not a string: line 64, reached once user_content has the
\* marker.
CheckRaises(c, u) ==
    re_search_test_cases(u) # <<>> /\ c = NotAString

TryResult(s, m, t, r) ==
    [local_score |-> s, local_msg |-> m, manipulated |-> t,
     manip_reason |-> r]

\* try_result that looks for manipulation only below a perfect local score.
MutVerdictNeedsLowScore(c, u, g) ==
    IF g.score[1] = g.score[2] THEN TryResult(g.score, g.msg, FALSE, "None")
    ELSE IF CheckRaises(c, u)
    THEN TryResult(g.score, Msg("Parse error", 0, 0), FALSE, "None")
    ELSE LET v == check_test_manipulation(c, u)
         IN  TryResult(g.score, g.msg, v.tampered, v.reason)

\* Lines 188-193 once grade_quietly has returned g: line 188 has assigned
\* local_score and local_msg; an exception of line 189 leaves local_score as
\* assigned and replaces the message.
try_result(c, u, g) ==
    IF CheckRaises(c, u)
    THEN TryResult(g.score, Msg("Parse error", 0, 0), FALSE, "None")
    ELSE LET v == check_test_manipulation(c, u)
         IN  TryResult(g.score, g.msg, v.tampered, v.reason)

Abs(n) == IF n < 0 THEN 0 - n ELSE n

\* Line 196: remote_score is not None and remote_score < 1.0.
is_failure(r) == r # NoScore /\ r[1] < r[2]

\* is_match comparing the two scores for equality.
MutExactMatch(r, l) == r # NoScore /\ r[1] * l[2] = l[1] * r[2]

\* Line 200: remote_score is not None and abs(remote - local) < 0.01.
is_match(r, l) ==
    r # NoScore /\ 100 * Abs(r[1] * l[2] - l[1] * r[2]) < r[2] * l[2]

\* diagnostics that reports a matching item only when it is manipulated.
MutDiagnostics(m, r, manip, lmsg, u) ==
    IF m
    THEN IF manip
         THEN {"MATCH"}
                 \cup (IF r[1] < r[2] THEN {"FAILED"} ELSE {})
                 \cup {"Manipulation"}
                 \cup (IF lmsg.text # "" THEN {"Local result"} ELSE {})
         ELSE {}
    ELSE {"MISMATCH", "Local result"}
            \cup (IF is_failure(r) THEN {"FAILED"} ELSE {})
            \cup (IF manip THEN {"Manipulation"} ELSE {})
            \cup (IF u # <<>> THEN {"Problem"} ELSE {})

\* Lines 200-223: the lines printed for an item, m telling whether it matched.
diagnostics(m, r, manip, lmsg, u) ==
    IF m
    THEN IF manip \/ r[1] < r[2]
         THEN {"MATCH"}
                 \cup (IF r[1] < r[2] THEN {"FAILED"} ELSE {})
                 \cup (IF manip THEN {"Manipulation"} ELSE {})
                 \cup (IF lmsg.text # "" THEN {"Local result"} ELSE {})
         ELSE {}
    ELSE {"MISMATCH", "Local result"}
            \cup (IF is_failure(r) THEN {"FAILED"} ELSE {})
            \cup (IF manip THEN {"Manipulation"} ELSE {})
            \cup (IF u # <<>> THEN {"Problem"} ELSE {})

counters == <<matches, mismatches, manipulations, no_output, failures>>
item_locals ==
    <<sample_data, output_text, remote_score, local_score, local_msg,
      manipulated, manip_reason, cls, printed>>

AInit ==
    /\ apc = "fetch" /\ ACleared

\* Line 134: get_all_output_items has returned; its locals are gone.
AnalyzeFetched ==
    /\ apc = "fetch" /\ ppc = "done"
    /\ eval_items' = all_items /\ apc' = "next"
    /\ all_items' = <<>> /\ after' = 0 /\ ppc' = "idle" /\ requests' = 0
    /\ last_page' = [data |-> <<>>, has_more |-> FALSE]
    /\ UNCHANGED <<remote, exc, idx, counters, item_locals, summary>>
    /\ UNCHANGED <<gvars, hvars, svars>>

\* analyze_eval_run that goes on with the items collected before the error.
MutFetchErrorSwallowed ==
    /\ apc = "fetch" /\ ppc = "raised"
    /\ eval_items' = all_items /\ apc' = "next"
    /\ UNCHANGED <<exc, idx, counters, item_locals, summary>>
    /\ UNCHANGED <<gvars, hvars, pvars, svars>>

\* Line 134: the HTTPError of get_all_output_items is not caught in
\* analyze_eval_run and ends it.
AnalyzeFetchRaised ==
    /\ apc = "fetch" /\ ppc = "raised"
    /\ apc' = "raised" /\ exc' = "HTTPError"
    /\ UNCHANGED <<eval_items, idx, counters, item_locals, summary>>
    /\ UNCHANGED <<gvars, hvars, pvars, svars>>

\* ReadItem with the failure test of line 196 made before the output is read.
MutReadItemCountsFailure ==
    /\ apc = "next" /\ idx < Len(eval_items)
    /\ \E sd \in SampleDatas :
          /\ sample_data' = sd
          /\ output_text' = select_output_text(sd)
          /\ IF select_output_text(sd) = <<>>
             THEN /\ no_output' = no_output + 1
                  /\ remote_score' \in RemoteScores
                  /\ failures' = IF is_failure(remote_score')
                                  THEN failures + 1 ELSE failures
                  /\ cls' = "no_output" /\ printed' = {"NO OUTPUT"}
                  /\ idx' = idx + 1 /\ apc' = "next"
             ELSE /\ remote_score' = NoScore
                  /\ cls' = "-" /\ printed' = {}
                  /\ apc' = "read"
                  /\ UNCHANGED <<idx, no_output, failures>>
    /\ local_score' = NoScore /\ local_msg' = NoMsg
    /\ manipulated' = FALSE /\ manip_reason' = "-"
    /\ UNCHANGED <<exc, eval_items, matches, mismatches, manipulations,
                   summary>>
    /\ UNCHANGED <<gvars, hvars, pvars, svars>>

\* Lines 148-169: the next item's output text; an item without one is counted
\* and the loop continues.  The item's fields are drawn where the code first
\* uses them: remote_score here for the NO OUTPUT line, else at line 196.
ReadItem ==
    /\ apc = "next" /\ idx < Len(eval_items)
    /\ \E sd \in SampleDatas :
          /\ sample_data' = sd
          /\ output_text' = select_output_text(sd)
          /\ IF select_output_text(sd) = <<>>
             THEN /\ no_output' = no_output + 1
                  /\ remote_score' \in RemoteScores
                  /\ cls' = "no_output" /\ printed' = {"NO OUTPUT"}
                  /\ idx' = idx + 1 /\ apc' = "next"
             ELSE /\ remote_score' = NoScore
                  /\ cls' = "-" /\ printed' = {}
                  /\ apc' = "read"
                  /\ UNCHANGED <<idx, no_output>>
    /\ local_score' = NoScore /\ local_msg' = NoMsg
    /\ manipulated' = FALSE /\ manip_reason' = "-"
    /\ UNCHANGED <<exc, eval_items, matches, mismatches, manipulations,
                   failures, summary>>
    /\ UNCHANGED <<gvars, hvars, pvars, svars>>

\* Lines 171-181: the locals of the item, and the try block is entered with
\* the output text.  sample_data is not read again for its output.
BeginTry ==
    /\ apc = "read"
    /\ local_score' = Zero /\ local_msg' = Msg("No code found", 0, 0)
    /\ manipulated' = FALSE /\ manip_reason' = "None"
    /\ fn' = "analyze" /\ pc' = "start"
    /\ sample' = [output_json |-> Absent, output_text |-> output_text]
    /\ sample_data' = NoSampleData /\ output_text' = <<>>
    /\ apc' = "try"
    /\ UNCHANGED <<code, child, spawned, stdout, stderr, returncode, outcome,
                   score, msg, span, live>>
    /\ UNCHANGED <<exc, eval_items, idx, counters, remote_score, cls, printed,
                   summary>>
    /\ UNCHANGED <<hvars, pvars, svars>>

\* Lines 188-193: the try block ends.  Without code the locals stay as
\* lines 176-179 and 193 left them; with code grade_quietly has returned and
\* check_test_manipulation is called with the code and the problem text.
AfterTry ==
    /\ apc = "try" /\ pc = "done"
    /\ \E u \in AuditUsers :
          /\ user_content' = u
          /\ IF outcome = "-"
             THEN /\ local_score' = score /\ local_msg' = msg
                  /\ manipulated' = FALSE /\ manip_reason' = "None"
                  /\ submitted_code' = <<>>
                  /\ UNCHANGED manipulations
             ELSE \E c \in CodeTextsOf(code) :
                     LET r == try_result(c, u, [score |-> score, msg |-> msg])
                     IN  /\ local_score' = r.local_score
                         /\ local_msg' = r.local_msg
                         /\ manipulated' = r.manipulated
                         /\ manip_reason' = r.manip_reason
                         /\ submitted_code' = c
                         /\ manipulations' =
                               IF r.manipulated THEN manipulations + 1
                               ELSE manipulations
    /\ fn' = "-" /\ sample' = NoSample /\ code' = NoCode /\ pc' = "idle"
    /\ child' = "none" /\ spawned' = 0 /\ stdout' = <<>> /\ stderr' = FALSE
    /\ returncode' = 0 /\ outcome' = "-" /\ score' = NoScore /\ msg' = NoMsg
    /\ span' = <<>>
    /\ apc' = "compare"
    /\ UNCHANGED <<live, hpc, tampered, reason>>
    /\ UNCHANGED <<exc, eval_items, idx, matches, mismatches, no_output,
                   failures, sample_data, output_text, remote_score, cls,
                   printed, summary>>
    /\ UNCHANGED <<pvars, svars>>

\* Lines 195-223: count a failure, compare the scores, print.
Compare ==
    /\ apc = "compare"
    /\ \E r \in RemoteScores :
          /\ remote_score' = r
          /\ failures' = IF is_failure(r) THEN failures + 1 ELSE failures
          /\ IF is_match(r, local_score)
             THEN /\ matches' = matches + 1 /\ cls' = "match"
                  /\ UNCHANGED mismatches
             ELSE /\ mismatches' = mismatches + 1 /\ cls' = "mismatch"
                  /\ UNCHANGED matches
          /\ printed' = diagnostics(is_match(r, local_score), r, manipulated,
                                    local_msg, user_content)
    /\ idx' = idx + 1 /\ apc' = "next"
    /\ submitted_code' = <<>> /\ user_content' = <<>>
    /\ UNCHANGED <<hpc, tampered, reason>>
    /\ UNCHANGED <<exc, eval_items, manipulations, no_output, sample_data,
                   output_text, local_score, local_msg, manipulated,
                   manip_reason, summary>>
    /\ UNCHANGED <<gvars, pvars, svars>>

\* Lines 225-244: the summary; its percentages divide by len(items).
Summarize ==
    /\ apc = "next" /\ idx = Len(eval_items)
    /\ IF Len(eval_items) = 0
       THEN /\ apc' = "raised" /\ exc' = "ZeroDivisionError"
            /\ UNCHANGED summary
       ELSE /\ apc' = "done"
            /\ summary' =
                  [total |-> Len(eval_items),
                   perfect |-> Len(eval_items) - failures - no_output,
                   failures |-> failures, matches |-> matches,
                   mismatches |-> mismatches, no_output |-> no_output,
                   manipulations |-> manipulations]
            /\ UNCHANGED exc
    /\ UNCHANGED <<eval_items, idx, counters, item_locals>>
    /\ UNCHANGED <<gvars, hvars, pvars, svars>>

InitAudit ==
    /\ GIdle /\ HIdle /\ SIdle /\ PInit /\ remote \in AuditRemotes /\ AInit
NextAudit ==
    \/ FetchPage \/ FetchFails \/ AnalyzeFetched \/ AnalyzeFetchRaised
    \/ ReadItem \/ BeginTry \/ AnalyzeExtract
    \/ Launch \/ LaunchFails \/ RunReturns \/ RunTimesOut
    \/ AfterTry \/ Compare \/ Summarize
SpecAudit == InitAudit /\ [][NextAudit]_vars

----------------------------------------------------------------------------
(* The child of grader.py's test sample 2 and its like: an is_odd followed  *)
(* by the scaffold of lines 110 and 115, run by grade                       *)

MaxCases == 2       \* most cases in the scaffold's list
MaxArg == 2         \* largest argument in a case

\* One entry ([x], gold) of the list the scaffold loops over; a gold is a
\* bool v, or the list [v] when wrapped.
Gold(w, v) == [wrapped |-> w, v |-> v]
Case(x, g) == [x |-> x, gold |-> g]
ScaffoldCases ==
    {Case(x, Gold(w, v)) : x \in 1..MaxArg, w \in BOOLEAN, v \in BOOLEAN}

\* def is_odd(x): return x % 2 == r
is_odd(x, r) == (x % 2) = r

\* scaffold_passes with the comparison inverted.
MutScaffoldInverted(o, gold) == o # gold.v

\* `o == gold or [o] == gold` for a bool o: the first holds of an equal bool
\* gold, the second of a wrapped one.
scaffold_passes(o, gold) ==
    \/ ~gold.wrapped /\ o = gold.v
    \/ gold.wrapped /\ o = gold.v

\* The sample: {"answer": "<the program>"} as output_text.
ScenarioSample ==
    [output_json |-> Absent, output_text |-> <<"{", "A", ":", "S", "}">>]

SInit ==
    /\ impl \in {0, 1} /\ cases \in SeqsUpTo(ScaffoldCases, MaxCases)
    /\ ci = 0

\* One turn of the scaffold's loop: a line with TEST_PASS or TEST_FAIL, the
\* printed case, and the newline.
ScaffoldStep ==
    /\ pc = "running" /\ ci < Len(cases)
    /\ LET i == cases[ci + 1].x
           gold == cases[ci + 1].gold
           o == is_odd(i, impl)
       IN  stdout' = stdout \o <<IF scaffold_passes(o, gold) THEN "P"
                                  ELSE "F", "o", "w">>
    /\ ci' = ci + 1
    /\ UNCHANGED <<fn, sample, code, pc, child, spawned, stderr, returncode,
                   outcome, score, msg, span, live, impl, cases>>
    /\ UNCHANGED <<hvars, pvars, avars>>

\* The loop is over: the child exits with status 0 and nothing on stderr,
\* and grade scores what it printed, lines 71-97.
ScaffoldExits ==
    /\ pc = "running" /\ ci = Len(cases)
    /\ child' = "exited" /\ returncode' = 0
    /\ Return(grade_score(stdout, FALSE), NoMsg, "Completed")
    /\ live' = Reaped(live, idx)
    /\ UNCHANGED <<fn, sample, code, spawned, stdout, stderr, span>>
    /\ UNCHANGED <<hvars, pvars, avars, svars>>

InitScenario ==
    /\ fn = "grade" /\ sample = ScenarioSample /\ code = NoCode
    /\ pc = "start"
    /\ child = "none" /\ spawned = 0 /\ stdout = <<>> /\ stderr = FALSE
    /\ returncode = 0 /\ outcome = "-" /\ score = NoScore /\ msg = NoMsg
    /\ span = <<>> /\ live = {}
    /\ HIdle /\ PIdle /\ AIdle /\ SInit
NextScenario ==
    GradeExtract \/ Launch \/ LaunchFails \/ ScaffoldStep \/ ScaffoldExits
SpecScenario == InitScenario /\ [][NextScenario]_vars

----------------------------------------------------------------------------
(* Properties of the score (SpecGrade) *)

\* The returned score equals n/d.
ScoreIs(n, d) == score[2] > 0 /\ score[1] * d = n * score[2]

\* Markers in what the child wrote, counted on the raw stdout.
Passes == count(stdout, "P")
Fails == count(stdout, "F")

\* The call returned after a run that ended in time with empty stderr.
Completed == pc = "done" /\ child = "exited" /\ ~stderr

\* C1: every outcome other than Completed (non-empty stderr, timeout, failure
\* to launch the child) yields the score 0.0, in grade and in grade_quietly,
\* whatever is on stdout.
C1_NotCompletedScoresZero ==
    (/\ pc = "done"
     /\ \/ child = "exited" /\ stderr
        \/ child = "killed"
        \/ outcome \in {"Faulted", "TimedOut", "LaunchError"})
        => ScoreIs(0, 1)

C1_Witness ==
    /\ pc = "done" /\ fn = "grade" /\ outcome = "Faulted"
    /\ child = "exited" /\ stderr /\ Passes = 2 /\ Fails = 0
    /\ score = Zero

\* C2: a completed run with at least one TEST_PASS and no TEST_FAIL on stdout
\* scores exactly 1.0; only the text of stdout counts.
C2_AllPassScoresOne ==
    (Completed /\ Passes + Fails > 0 /\ Fails = 0) => ScoreIs(1, 1)

C2_Witness ==
    /\ Completed /\ fn = "grade" /\ stdout = <<"P", "w", "P">>
    /\ score = <<2, 2>>

\* C3: a completed run with P TEST_PASS and F > 0 TEST_FAIL scores
\* 0.5 * P / (P + F), that is 2 * (P + F) * score = P, in both functions.
C3_FailureHalvesRate ==
    (Completed /\ Fails > 0) => ScoreIs(Passes, 2 * (Passes + Fails))

C3_Witness ==
    /\ Completed /\ fn = "grade_quietly" /\ Passes = 2 /\ Fails = 1
    /\ score = <<2, 6>>

\* C4: a completed run with no marker at all scores 0.0, and grade_quietly
\* gives the reason "No tests run".
C4_NoTestsScoresZero ==
    (Completed /\ Passes + Fails = 0)
        => /\ ScoreIs(0, 1)
           /\ fn = "grade_quietly" => msg.text = "No tests run"

C4_Witness ==
    /\ Completed /\ fn = "grade_quietly" /\ stdout = <<"o", "w", "o">>
    /\ score = Zero /\ msg.text = "No tests run"

\* C5: any content on stderr makes the score 0.0, whatever stdout holds and
\* whatever the exit status is.
C5_StderrScoresZero ==
    (pc = "done" /\ child = "exited" /\ stderr)
        => /\ ScoreIs(0, 1)
           /\ outcome = "Faulted"
           /\ fn = "grade_quietly" => msg.text = "Execution error"

C5_Witness ==
    /\ pc = "done" /\ fn = "grade_quietly" /\ child = "exited" /\ stderr
    /\ returncode = 0 /\ stdout = <<"P", "P", "P">>
    /\ score = Zero

\* A text yields an answer exactly when the span from its first "{" to its
\* last "}" is the object { "answer" : <non-blank string> }.
TextHasAnswer(t) ==
    \E i \in 1..Len(t) :
        /\ t[i] = "{" /\ \A j \in 1..(i-1) : t[j] # "{"
        /\ i + 4 <= Len(t)
        /\ t[i+1] = "A" /\ t[i+2] = ":" /\ t[i+3] \in {"S", "A"}
        /\ t[i+4] = "}" /\ \A j \in (i+5)..Len(t) : t[j] # "}"

SampleHasAnswer(s) ==
    IF s.output_json.t # "absent"
    THEN s.output_json.t = "dict" /\ s.output_json.k = "answer"
            /\ s.output_json.v = "str"
    ELSE TextHasAnswer(s.output_text)

\* C6: grade always returns, and a sample with no JSON span, an invalid span,
\* a payload that is no object, no answer key, or an answer that is no string
\* or is blank gets 0.0 without any child process being started.
C6_NoAnswerNoChild ==
    /\ (fn = "grade" /\ pc # "done") => ENABLED NextGrade
    /\ (fn = "grade" /\ ~SampleHasAnswer(sample))
          => /\ pc \in {"start", "done"}
             /\ spawned = 0 /\ child = "none"
             /\ pc = "done" => ScoreIs(0, 1)

C6_Witness ==
    /\ fn = "grade" /\ pc = "done"
    /\ sample.output_json = Absent
    /\ sample.output_text = <<"{", "A", ":", "B", "}">>
    /\ score = Zero /\ spawned = 0

----------------------------------------------------------------------------
(* Properties of the harness check (SpecHarness) *)

HasMarker(t) == \E i \in 1..Len(t) : t[i] = "M"

\* The text from the first marker to the end of the text.
FromMarker(t) ==
    SubSeq(t, SetMin({i \in 1..Len(t) : t[i] = "M"}), Len(t))

\* C7: when the problem text has the marker and the submission's text from
\* the marker on is an identical copy of the problem's, the verdict is
\* tampered = false with no diagnostic.
C7_IdenticalFragmentNotTampered ==
    (/\ hpc = "done"
     /\ HasMarker(user_content) /\ HasMarker(submitted_code)
     /\ FromMarker(submitted_code) = FromMarker(user_content))
        => tampered = FALSE /\ reason = "None"

C7_Witness ==
    /\ hpc = "done"
    /\ user_content = <<"sp", "M", "a">>
    /\ submitted_code = <<"a", "M", "a">>
    /\ tampered = FALSE /\ reason = "None"

\* C8: the protected fragment runs from the marker line to the end of the
\* text, and any difference between the two fragments makes the verdict
\* tampered = true.
C8_AnyDifferenceTampered ==
    (/\ hpc = "done"
     /\ HasMarker(user_content) /\ HasMarker(submitted_code)
     /\ FromMarker(submitted_code) # FromMarker(user_content))
        => tampered = TRUE

\* C9 as stated: a submission without the marker is reported tampered,
\* "Test harness missing", for every problem text.
C9_MissingHarnessAlwaysTampered ==
    (hpc = "done" /\ ~HasMarker(submitted_code))
        => tampered = TRUE /\ reason = "Test harness missing"

\* C9, amended: a submission without the marker is reported tampered, "Test
\* harness missing", for every problem text that contains the marker.
C9_MissingHarnessTampered ==
    (hpc = "done" /\ ~HasMarker(submitted_code) /\ HasMarker(user_content))
        => tampered = TRUE /\ reason = "Test harness missing"

C9_Witness ==
    /\ hpc = "done"
    /\ user_content = <<"M", "nl", "a">>
    /\ submitted_code = <<"a", "nl", "a">>
    /\ tampered = TRUE /\ reason = "Test harness missing"

----------------------------------------------------------------------------
(* Properties of the pagination (SpecPaging) *)

\* C10: whatever the page boundaries, the list get_all_output_items returns
\* is the service's item sequence, in order, nothing missing or duplicated.
C10_PaginationComplete ==
    ppc = "done" => all_items = remote

C10_Witness ==
    /\ ppc = "done" /\ Len(remote) = 3 /\ requests = 3
    /\ all_items = remote /\ Len(last_page.data) = 1

\* C11: the loop stops after a response that reports no further pages or
\* that holds no items: a page request is issued only as the first one or
\* after a response with has_more true and a non-empty data list.
C11_StopsAfterLastOrEmptyPage ==
    [][requests' # requests
          => \/ requests = 0
             \/ last_page.has_more /\ last_page.data # <<>>]_vars

----------------------------------------------------------------------------
(* Properties of the audit (SpecAudit), of the scaffold's run (SpecScenario)
   and of the extraction (SpecGrade) *)

\* grader.py lines 112-115: test sample 2.
ScenarioB ==
    /\ impl = 0
    /\ cases = <<Case(1, Gold(FALSE, TRUE)), Case(2, Gold(FALSE, FALSE))>>

\* The call has searched the output text: grade with no output_json and a
\* non-empty text, the try block of analyze_eval_run always.
SearchMade ==
    \/ fn = "analyze"
    \/ fn = "grade" /\ sample.output_json = Absent
          /\ sample.output_text # <<>>

C13_ExactlyOneClass ==
    /\ cls \in {"-", "no_output", "match", "mismatch"}
    /\ apc # "idle" => matches + mismatches + no_output = idx
    /\ cls = "no_output" =>
          /\ ~(sample_data.output.shape = "list"
                 /\ sample_data.output.content # <<>>)
          /\ sample_data.output_text = <<>>
    /\ apc = "read" =>
          \/ sample_data.output.shape = "list"
                /\ sample_data.output.content # <<>>
          \/ sample_data.output_text # <<>>
    /\ cls \in {"match", "mismatch"} =>
          (cls = "match" <=>
              /\ remote_score # NoScore
              /\ 100 * (remote_score[1] * local_score[2]
                           - local_score[1] * remote_score[2])
                    < remote_score[2] * local_score[2]
              /\ 100 * (local_score[1] * remote_score[2]
                           - remote_score[1] * local_score[2])
                    < remote_score[2] * local_score[2])

\* An item whose scores differ, by less than the tolerance, is a match.
C13_Witness ==
    /\ cls = "match" /\ remote_score = <<1, 200>> /\ local_score[1] = 0
    /\ matches + mismatches + no_output = 2

\* C14: once a page request has failed, no further request is made, the
\* exception leaves analyze_eval_run with no item list, and no item is read
\* or graded.
C14_FetchErrorPropagates ==
    [][ppc = "raised"
          => /\ requests' = requests /\ ppc' = "raised"
             /\ apc' = "raised" /\ exc' = "HTTPError"
             /\ eval_items' = <<>> /\ idx' = 0
             /\ pc' = "idle" /\ spawned' = 0 /\ live' = {}
             /\ matches' + mismatches' + no_output' = 0]_vars

\* The second request failed after a first page had been collected.
C14_Witness ==
    /\ apc = "raised" /\ exc = "HTTPError" /\ requests >= 2
    /\ all_items # <<>>

\* C15: once code has been extracted, the tampered flag is the verdict on the
\* code and the problem text alone, whatever grade_quietly returned, and a
\* tampered item is printed with its flag whether it matches or not.
C15_VerdictIndependentOfScore ==
    /\ (apc = "compare" /\ submitted_code # <<>>
            /\ submitted_code # NotAString)
          => (manipulated <=>
                /\ re_search_test_cases(user_content) # <<>>
                /\ re_search_test_cases(submitted_code)
                      # re_search_test_cases(user_content))
    /\ (cls \in {"match", "mismatch"} /\ manipulated)
          => "Manipulation" \in printed

\* A tampered item with a perfect local score that matches the remote one.
C15_Witness ==
    /\ cls = "match" /\ manipulated /\ remote_score = <<1, 1>>
    /\ local_score[1] = local_score[2] /\ "Manipulation" \in printed

\* C16: grader.py's test sample 2 (is_odd returning x % 2 == 0, the cases
\* ([1], True) and ([2], False)) prints one TEST_PASS and one TEST_FAIL and
\* is scored 0.25.
C16_ScenarioBScoresQuarter ==
    (ScenarioB /\ pc = "done" /\ outcome = "Completed")
        => Passes = 1 /\ Fails = 1 /\ ScoreIs(1, 4)

\* C16, as the code has it: that sample prints no TEST_PASS and two
\* TEST_FAIL (is_odd(1) is False against True, is_odd(2) is True against
\* False) and is scored 0.0.
C16_ScenarioBScoresZero ==
    (ScenarioB /\ pc = "done" /\ outcome = "Completed")
        => Passes = 0 /\ Fails = 2 /\ ScoreIs(0, 1)

\* The child of sample 2 has run through both cases and grade has returned.
C16_Witness ==
    /\ ScenarioB /\ pc = "done" /\ outcome = "Completed" /\ ci = 2
    /\ spawned = 1

\* C17: a call starts at most one child and exactly one when the code ran;
\* no child is running before the call starts one or once it has returned,
\* on every exit; and never are two children running.
C17_OneChildAtATime ==
    /\ Cardinality(live) <= 1
    /\ spawned <= 1
    /\ outcome \in {"Completed", "Faulted", "TimedOut"} => spawned = 1
    /\ outcome \in {"LaunchError", "-"} => spawned = 0 \/ pc = "running"
    /\ pc # "running" => live = {} /\ child # "alive"
    /\ pc = "running" => live = {idx} /\ child = "alive"

\* The second item's child ran into the timeout and the call has returned.
C17_Witness ==
    /\ apc = "try" /\ pc = "done" /\ outcome = "TimedOut" /\ idx = 1
    /\ spawned = 1 /\ live = {}

\* C18: where the search is made, there is a span exactly when "answer"
\* occurs after the first { and before some }, the span is then the text from
\* the first { to the last } of the whole text, and code is taken from it
\* only if the span parses as an object whose answer is a non-empty string.
C18_GreedySpanStringAnswer ==
    (pc # "start" /\ SearchMade) =>
        LET t == sample.output_text
            opens == {i \in 1..Len(t) : t[i] = "{"}
            closes == {i \in 1..Len(t) : t[i] = "}"}
        IN  /\ span # <<>> <=>
                  /\ opens # {}
                  /\ \E i \in 1..Len(t) :
                        /\ t[i] = "A" /\ i > SetMin(opens)
                        /\ \E k \in closes : k > i
            /\ span # <<>> => span = SubSeq(t, SetMin(opens), SetMax(closes))
            /\ code # NoCode =>
                  /\ span # <<>>
                  /\ json_loads(span).t = "dict"
                  /\ json_loads(span).k = "answer"
                  /\ json_loads(span).v \in {"str", "blank"}

\* C19: an item with output text prints lines exactly when it is a mismatch,
\* is tampered, or has a remote score below 1.0.
C19_DiagnosticIffAnomaly ==
    cls \in {"match", "mismatch"} =>
        (printed # {} <=>
            \/ cls = "mismatch"
            \/ manipulated
            \/ remote_score # NoScore /\ remote_score[1] < remote_score[2])

\* A matching, untampered item with remote score 1.0 printed nothing.
C19_Witness ==
    /\ cls = "match" /\ ~manipulated /\ remote_score = <<1, 1>>
    /\ printed = {} /\ idx = 1

\* C20: the text of an item is the content of the first entry of
\* sample.output when that list and that content are non-empty, the flat
\* sample.output_text otherwise, and the item is no-output exactly when both
\* are empty.
C20_StructuredShapeWins ==
    (apc = "read" \/ cls = "no_output") =>
        LET structured ==
                /\ sample_data.output.shape = "list"
                /\ sample_data.output.content # <<>>
        IN  /\ structured => output_text = sample_data.output.content
            /\ ~structured => output_text = sample_data.output_text
            /\ cls = "no_output" <=>
                  ~structured /\ sample_data.output_text = <<>>

\* Both shapes hold text, different ones, and the structured one was taken.
C20_Witness ==
    /\ apc = "read" /\ sample_data.output.shape = "list"
    /\ sample_data.output.content # <<>>
    /\ sample_data.output_text # <<>>
    /\ sample_data.output_text # sample_data.output.content
    /\ output_text = sample_data.output.content

----------------------------------------------------------------------------
(* Further properties of the score (SpecGrade) *)

\* C21: what grade returns is 1.0 or lies in [0.0, 0.5): it is 1.0 exactly
\* when the run completed with at least one TEST_PASS and no TEST_FAIL, and
\* a completed run with a TEST_FAIL scores below 0.5 whatever else it
\* printed; the score is never negative and never above 1.0.
C21_ScoreOneOrBelowHalf ==
    (pc = "done" /\ fn = "grade") =>
        /\ score[2] > 0 /\ score[1] >= 0 /\ score[1] <= score[2]
        /\ score[1] = score[2] \/ 2 * score[1] < score[2]
        /\ score[1] = score[2] <=> Completed /\ Passes >= 1 /\ Fails = 0
        /\ Fails >= 1 => 2 * score[1] < score[2]

\* A completed run with two TEST_PASS and one TEST_FAIL, scored 1/3.
C21_Witness ==
    /\ pc = "done" /\ fn = "grade" /\ Completed
    /\ Passes = 2 /\ Fails = 1 /\ ScoreIs(1, 3)

\* C22: for an output text, the local score of analyze_eval_run and the value
\* of grade on a sample with that output_text are one and the same function
\* of the text and of how the run of its code ended: the marker score of the
\* stdout when the answer is a non-blank string whose run completed, and 0.0
\* in every other case (no answer, a non-string, an all-whitespace string,
\* a fault, a timeout, a failure to launch).
C22_LocalAgreesWithGrade ==
    (pc = "done" /\ SearchMade) =>
        LET response == json_loads(re_search_answer(sample.output_text))
            ran == /\ response.t = "dict" /\ response.k = "answer"
                   /\ response.v = "str" /\ outcome = "Completed"
        IN  /\ score[2] > 0
            /\ ~ran => score[1] = 0
            /\ (ran /\ Passes + Fails = 0) => score[1] = 0
            /\ (ran /\ Passes > 0 /\ Fails = 0) => score[1] = score[2]
            /\ (ran /\ Fails > 0) =>
                  score[1] * 2 * (Passes + Fails) = Passes * score[2]

\* The auditor ran an all-whitespace answer, which grade refuses, and scored
\* it 0.0 as grade does.
C22_Witness ==
    /\ pc = "done" /\ fn = "analyze" /\ code = "blank"
    /\ outcome = "Completed" /\ score[1] = 0 /\ spawned = 1

\* C26: the score of a run that ended within the timeout is decided by its
\* stdout and stderr alone, in grade and in grade_quietly: 0.0 with stderr
\* output, else the marker score of stdout, whatever the exit status; a run
\* that exits non-zero with empty stderr counts as Completed.
C26_ExitStatusIgnored ==
    (pc = "done" /\ child = "exited") =>
        /\ score[2] > 0
        /\ outcome = IF stderr THEN "Faulted" ELSE "Completed"
        /\ stderr => score[1] = 0
        /\ (~stderr /\ Passes + Fails = 0) => score[1] = 0
        /\ (~stderr /\ Passes > 0 /\ Fails = 0) => score[1] = score[2]
        /\ (~stderr /\ Fails > 0) =>
              score[1] * 2 * (Passes + Fails) = Passes * score[2]

\* A run that exited with status 1, wrote nothing to stderr and printed only
\* TEST_PASS is scored 1.0.
C26_Witness ==
    /\ pc = "done" /\ child = "exited" /\ returncode = 1 /\ ~stderr
    /\ outcome = "Completed" /\ Passes > 0 /\ Fails = 0 /\ ScoreIs(1, 1)

----------------------------------------------------------------------------
(* Further properties of the audit (SpecAudit) *)

\* C23: once the fetch has returned an empty item list, the audit raises
\* nothing, every counter is 0, and it ends with the summary printed.
C23_EmptyRunCompletes ==
    (ppc = "idle" /\ apc \in {"next", "done", "raised"} /\ eval_items = <<>>)
        => /\ exc = "-" /\ apc # "raised"
           /\ matches = 0 /\ mismatches = 0 /\ no_output = 0
           /\ failures = 0 /\ manipulations = 0
           /\ apc = "done" => summary = NoSummary

\* C24: the perfect-score count, total - failures - no_output, counts the
\* items that have output text and a remote score that is present and not
\* below 1.0: each finished item raises it by one exactly when it is such an
\* item, and the summary prints it.
C24_PerfectCountsScoredItems ==
    [][/\ idx' = idx + 1 =>
            (idx' - failures' - no_output') - (idx - failures - no_output)
                = IF /\ cls' \in {"match", "mismatch"}
                     /\ remote_score' # NoScore
                     /\ remote_score'[1] >= remote_score'[2]
                  THEN 1 ELSE 0
       /\ apc' = "done" =>
            summary'.perfect = idx' - failures' - no_output']_vars

\* C25: the step that finishes a no-output item raises no_output by one and
\* leaves the match, mismatch, failure and manipulation counters as they
\* were, whatever the item's remote score, and starts no child.
C25_NoOutputOnlyCounted ==
    [][(idx' = idx + 1 /\ cls' = "no_output")
          => /\ no_output' = no_output + 1
             /\ matches' = matches /\ mismatches' = mismatches
             /\ failures' = failures /\ manipulations' = manipulations
             /\ spawned' = spawned /\ live' = live /\ live = {}
             /\ pc = "idle" /\ pc' = "idle"]_vars

\* A no-output item with remote score 0.0 was counted and is no failure.
C25_Witness ==
    /\ cls = "no_output" /\ remote_score = Zero /\ idx = 1
    /\ no_output = 1 /\ failures = 0 /\ spawned = 0

====
